---- MODULE Spec2Model ----
(***************************************************************************)
(* Model of two parts of Vex-Cogs:                                         *)
(*   - status/commands/status_com.py : the [p]status command               *)
(*   - ghissues/vexutils/meta.py     : format_info, out_of_date_check and  *)
(*                                     the version fetch they share        *)
(***************************************************************************)
EXTENDS Integers, Sequences, FiniteSets, TLC

(***************************************************************************)
(* Bounds of the model                                                     *)
(***************************************************************************)
MaxCooldown == 2      \* remaining cooldown seconds range over 0..MaxCooldown
MaxRestrict == 2      \* length of a guild's restriction list
MaxEntries == 2       \* length of the incident / scheduled lists
MaxTime == 2          \* timestamps range over 1..MaxTime

(***************************************************************************)
(* Status command: state of one invocation of StatusCom.status             *)
(***************************************************************************)
VARIABLES
    spc,                 \* position in StatusCom.status
    time_until,          \* result of service_cooldown.handle (0 stands for None)
    restrictions,        \* result of service_restrictions_cache.get_guild (<<>> for None)
    channel,             \* ctx.channel.id
    status,              \* HTTP status returned by statusapi.summary
    now,                 \* datetime.now() taken after the fetch
    incidents_incidentdata_list,
    all_scheduled,
    to_send,             \* <<>> for None, else <<entry>>
    other_incidents,
    other_scheduled,
    replies,             \* every ctx.send made, in order
    cacheQueried,        \* service_restrictions_cache.get_guild was called
    typing,              \* ctx.trigger_typing was called
    fetches,             \* number of statusapi.summary calls
    dispatched           \* entries handed to SendUpdate(...).send, in order

statusVars == <<spc, time_until, restrictions, channel, status, now,
                incidents_incidentdata_list, all_scheduled, to_send,
                other_incidents, other_scheduled, replies, cacheQueried,
                typing, fetches, dispatched>>

\* Sequences over S of length at most n
RECURSIVE SeqsUpTo(_, _)
SeqsUpTo(S, n) ==
    IF n = 0 THEN {<<>>}
    ELSE LET shorter == SeqsUpTo(S, n - 1)
         IN  shorter \cup {Append(s, x) : s \in {t \in shorter : Len(t) = n - 1}, x \in S}

\* ---- the guild's channels, as bot.get_channel resolves them --------------
ChannelIds == {"c1", "c2", "c3", "c4"}

\* bot.get_channel(id): a TextChannel, another kind of channel, or None
get_channel(id) ==
    CASE id = "c1" -> "TextChannel"
      [] id = "c2" -> "TextChannel"
      [] id = "c3" -> "VoiceChannel"
      [] OTHER     -> "None"

\* the command is invoked in a text channel of the guild
InvokingChannels == {id \in ChannelIds : get_channel(id) = "TextChannel"}

\* ---- entries of a status page (IncidentData) ------------------------------
Titles == {"A", "B"}
\* scheduled_for = 0 stands for None
IncidentEntries == [title : Titles, scheduled_for : {0}]
ScheduledEntries == [title : Titles, scheduled_for : 0..MaxTime]
HttpStatuses == {200, 304, 503}

\* faulty variant: the cooldown is never seen
OnCooldownNever(t) == FALSE

\* Python truthiness of the value service_cooldown.handle returns
OnCooldown(t) == t # 0

\* faulty variant: channels that are not text channels are mentioned too
MentionAll(restr) == restr

\* [channel.mention for channel in channels if isinstance(channel, TextChannel)]
TextMentions(restr) == SelectSeq(restr, LAMBDA id : get_channel(id) = "TextChannel")

\* faulty variant: only a server error counts as a failed fetch
NotOkOnlyServerError(s) == s >= 500

\* status != 200
NotOk(s) == s # 200

\* [i for i in all_scheduled if i.scheduled_for and i.scheduled_for < now]
Happening(sched, t) ==
    SelectSeq(sched, LAMBDA i : i.scheduled_for # 0 /\ i.scheduled_for < t)

Rest(s) == IF s = <<>> THEN <<>> ELSE Tail(s)

\* faulty variant: the scheduled remainder is kept beside the incidents
SelectionKeepsBoth(incs, sched) ==
    IF incs # <<>>
    THEN [to_send |-> <<incs[1]>>, other_incidents |-> Tail(incs), other_scheduled |-> Rest(sched)]
    ELSE IF sched # <<>>
    THEN [to_send |-> <<sched[1]>>, other_incidents |-> <<>>, other_scheduled |-> Tail(sched)]
    ELSE [to_send |-> <<>>, other_incidents |-> <<>>, other_scheduled |-> <<>>]
\* lines 64-73: the entry to send and the two remainders
Selection(incs, sched) ==
    IF incs # <<>>
    THEN [to_send |-> <<incs[1]>>, other_incidents |-> Tail(incs), other_scheduled |-> <<>>]
    ELSE IF sched # <<>>
    THEN [to_send |-> <<sched[1]>>, other_incidents |-> <<>>, other_scheduled |-> Tail(sched)]
    ELSE [to_send |-> <<>>, other_incidents |-> <<>>, other_scheduled |-> <<>>]

\* one "title (<link>)" line per entry
EntryLines(entries) == [i \in 1..Len(entries) |-> [line |-> "entry", title |-> entries[i].title]]

\* lines 93-106: the text of the summary, as a sequence of lines
SummaryMsg(oi, os) ==
    (IF oi # <<>>
     THEN <<[line |-> "other incidents", count |-> Len(oi)]>> \o EntryLines(oi)
     ELSE <<>>)
    \o
    (IF os # <<>>
     THEN <<[line |-> "other scheduled", count |-> Len(os)]>> \o EntryLines(os)
     ELSE <<>>)

\* ---- the messages ctx.send is given ---------------------------------------
CooldownNotice(t) == [type |-> "cooldown", seconds |-> t]
RestrictionNotice(mentions) == [type |-> "restricted", channels |-> mentions]
CantGetStatus == [type |-> "cant get status"]
NoLiveIncidents == [type |-> "no live incidents"]
SummaryReply(msg) == [type |-> "summary", lines |-> msg]

StatusInit ==
    /\ spc = "cooldown"
    /\ time_until = 0
    /\ restrictions = <<>>
    /\ channel = "none"
    /\ status = 0
    /\ now = 0
    /\ incidents_incidentdata_list = <<>>
    /\ all_scheduled = <<>>
    /\ to_send = <<>>
    /\ other_incidents = <<>>
    /\ other_scheduled = <<>>
    /\ replies = <<>>
    /\ cacheQueried = FALSE
    /\ typing = FALSE
    /\ fetches = 0
    /\ dispatched = <<>>

\* lines 31-35
CooldownGate ==
    /\ spc = "cooldown"
    /\ \E c \in InvokingChannels : channel' = c
    /\ \E t \in 0..MaxCooldown :
        /\ time_until' = t
        /\ IF OnCooldown(t)
           THEN /\ replies' = Append(replies, CooldownNotice(t))
                /\ spc' = "done"
           ELSE /\ replies' = replies
                /\ spc' = "restriction"
    /\ UNCHANGED <<restrictions, status, now, incidents_incidentdata_list,
                   all_scheduled, to_send, other_incidents, other_scheduled,
                   cacheQueried, typing, fetches, dispatched>>

\* lines 37-50
RestrictionGate ==
    /\ spc = "restriction"
    /\ cacheQueried' = TRUE
    /\ \E r \in SeqsUpTo(ChannelIds, MaxRestrict) :
        /\ restrictions' = r
        /\ LET channel_list == IF r # <<>> THEN TextMentions(r) ELSE <<>>
           IN  IF channel_list # <<>>
               THEN /\ replies' = Append(replies, RestrictionNotice(channel_list))
                    /\ spc' = "done"
                    /\ typing' = typing
               ELSE /\ replies' = replies
                    /\ typing' = TRUE
                    /\ spc' = "fetch"
    /\ UNCHANGED <<time_until, channel, status, now, incidents_incidentdata_list,
                   all_scheduled, to_send, other_incidents, other_scheduled,
                   fetches, dispatched>>

\* lines 52-77
FetchSummary ==
    /\ spc = "fetch"
    /\ fetches' = fetches + 1
    /\ \E s \in HttpStatuses :
        /\ status' = s
        /\ IF NotOk(s)
           THEN /\ replies' = Append(replies, CantGetStatus)
                /\ spc' = "done"
                /\ UNCHANGED <<now, incidents_incidentdata_list, all_scheduled,
                               to_send, other_incidents, other_scheduled>>
           ELSE \E incs \in SeqsUpTo(IncidentEntries, MaxEntries),
                   sched \in SeqsUpTo(ScheduledEntries, MaxEntries),
                   t \in 1..MaxTime :
                LET sel == Selection(incs, Happening(sched, t))
                IN  /\ incidents_incidentdata_list' = incs
                    /\ all_scheduled' = sched
                    /\ now' = t
                    /\ to_send' = sel.to_send
                    /\ other_incidents' = sel.other_incidents
                    /\ other_scheduled' = sel.other_scheduled
                    /\ IF sel.to_send = <<>>
                       THEN /\ replies' = Append(replies, NoLiveIncidents)
                            /\ spc' = "done"
                       ELSE /\ replies' = replies
                            /\ spc' = "dispatch"
    /\ UNCHANGED <<time_until, restrictions, channel, cacheQueried, typing, dispatched>>

\* lines 79-91
Dispatch ==
    /\ spc = "dispatch"
    /\ dispatched' = Append(dispatched, to_send[1])
    /\ spc' = "summary"
    /\ UNCHANGED <<time_until, restrictions, channel, status, now,
                   incidents_incidentdata_list, all_scheduled, to_send,
                   other_incidents, other_scheduled, replies, cacheQueried,
                   typing, fetches>>

\* lines 93-109
SendSummary ==
    /\ spc = "summary"
    /\ LET msg == SummaryMsg(other_incidents, other_scheduled)
       IN  replies' = IF msg # <<>> THEN Append(replies, SummaryReply(msg)) ELSE replies
    /\ spc' = "done"
    /\ UNCHANGED <<time_until, restrictions, channel, status, now,
                   incidents_incidentdata_list, all_scheduled, to_send,
                   other_incidents, other_scheduled, cacheQueried, typing,
                   fetches, dispatched>>


(***************************************************************************)
(* Version checks (vexutils/meta.py): format_info and out_of_date_check    *)
(* invocations running as tasks of one event loop                          *)
(***************************************************************************)
NProcs == 3           \* number of tasks calling into meta.py
HashPrefixLen == 7    \* the [:7] of lines 187 and 204

Procs == 1..NProcs

VARIABLES
    vpc,           \* per task: "idle", "waiting" (on the lock), "fetching", "done"
    fn,            \* per task: the function it runs
    args,          \* per task: the arguments and the local files it was called with
    cog_ver_lock,  \* the module-level asyncio.Lock: _locked, _waiters, woken futures
    resp,          \* per task: the two HTTP responses its fetch received
    attempts,      \* per task: number of _get_latest_vers calls it started
    logged,        \* per task: the log records it emitted
    result         \* per task: how its call ended

versVars == <<vpc, fn, args, cog_ver_lock, resp, attempts, logged, result>>

\* ---- strings ---------------------------------------------------------------
\* A string is a sequence of one-character strings.
Unknown == <<"U", "n", "k", "n", "o", "w", "n">>
DefaultRedVersion == <<"0", ".", "0", ".", "0">>          \* "0.0.0", line 192

Digits == {"0", "1", "2", "3", "4", "5", "6", "7", "8", "9"}
DigitValue(c) ==
    CASE c = "0" -> 0 [] c = "1" -> 1 [] c = "2" -> 2 [] c = "3" -> 3 [] c = "4" -> 4
      [] c = "5" -> 5 [] c = "6" -> 6 [] c = "7" -> 7 [] c = "8" -> 8 [] c = "9" -> 9

\* VersionInfo.from_str on "<digit>.<digit>.<digit>"; anything else raises ValueError
from_str(s) ==
    IF /\ Len(s) = 5
       /\ s[1] \in Digits /\ s[3] \in Digits /\ s[5] \in Digits
       /\ s[2] = "." /\ s[4] = "."
    THEN [ok |-> TRUE,
          val |-> [major |-> DigitValue(s[1]), minor |-> DigitValue(s[3]),
                   micro |-> DigitValue(s[5])]]
    ELSE [ok |-> FALSE, val |-> [major |-> 0, minor |-> 0, micro |-> 0]]

\* VersionInfo.__lt__ and __ge__: order on (major, minor, micro)
VersionLt(a, b) ==
    \/ a.major < b.major
    \/ a.major = b.major /\ a.minor < b.minor
    \/ a.major = b.major /\ a.minor = b.minor /\ a.micro < b.micro
VersionGe(a, b) == ~VersionLt(a, b)

\* s[:7]
Prefix(s) == SubSeq(s, 1, IF Len(s) < HashPrefixLen THEN Len(s) ELSE HashPrefixLen)

\* str.lower() on the cog names of the model
Lower(n) ==
    CASE n = "Status" -> "status"
      [] n = "GHIssues" -> "ghissues"
      [] OTHER -> n

\* ---- inputs ----------------------------------------------------------------
EmptyDict == <<>>
NoVersion == [major |-> 0, minor |-> 0, micro |-> 0]

V102 == <<"1", ".", "0", ".", "2">>
V110 == <<"1", ".", "1", ".", "0">>
VBad == <<"1", ".", "0">>
R349 == <<"3", ".", "4", ".", "9">>
R350 == <<"3", ".", "5", ".", "0">>
CommitA == <<"a", "b", "c", "d", "e", "f", "1", "0", "0">>
CommitA2 == <<"a", "b", "c", "d", "e", "f", "1", "9", "9">>   \* same first 7 characters
CommitB == <<"a", "b", "c", "d", "e", "f", "2", "0", "0">>

\* commit.json next to meta.py: open() or json.load() may raise
Sidecars(commits) ==
    {[status |-> "FileNotFoundError", data |-> EmptyDict],
     [status |-> "JSONDecodeError", data |-> EmptyDict],
     [status |-> "ok", data |-> EmptyDict]}
    \cup {[status |-> "ok", data |-> [k \in {"latest_commit"} |-> c]] : c \in commits}

\* GET https://api.vexcodes.com/v1/vers/ : an error, or a JSON object
ApiResponses(commits, names, versions) ==
    {[status |-> e, data |-> EmptyDict] : e \in {"ClientError", "TimeoutError", "JSONDecodeError"}}
    \cup {[status |-> "ok", data |-> d] :
            d \in {f \in UNION {[K -> commits \cup versions] : K \in SUBSET ({"utils"} \cup names)} :
                     \A k \in DOMAIN f : (k = "utils") <=> (f[k] \in commits)}}

\* GET https://pypi.org/pypi/Red-DiscordBot/json : an error, or a JSON object
PypiResponses(versions) ==
    {[status |-> e, data |-> EmptyDict] : e \in {"ClientError", "TimeoutError"}}
    \cup {[status |-> "ok", data |-> EmptyDict],
          [status |-> "ok", data |-> [k \in {"info"} |-> EmptyDict]]}
    \cup {[status |-> "ok", data |-> [k \in {"info"} |-> [j \in {"version"} |-> v]]] :
            v \in versions}

NotRequested == [status |-> "not requested", data |-> EmptyDict]

\* ---- the two fetches --------------------------------------------------------
Raised(exc) ==
    [ok |-> FALSE, exc |-> exc, cogs |-> EmptyDict, utils |-> Unknown, red |-> NoVersion]

\* lines 182-198
get_latest_vers(api, pypi) ==
    IF api.status # "ok" THEN Raised(api.status)
    ELSE IF "utils" \notin DOMAIN api.data THEN Raised("KeyError")
    ELSE IF pypi.status # "ok" THEN Raised(pypi.status)
    ELSE
      LET latest_utils == Prefix(api.data["utils"])
          latest_cogs == [k \in (DOMAIN api.data) \ {"utils"} |-> api.data[k]]
          info == IF "info" \in DOMAIN pypi.data THEN pypi.data["info"] ELSE EmptyDict
          red_str == IF "version" \in DOMAIN info THEN info["version"] ELSE DefaultRedVersion
          latest_red == from_str(red_str)
      IN  IF ~latest_red.ok THEN Raised("ValueError")
          ELSE IF \E k \in DOMAIN latest_cogs : ~from_str(latest_cogs[k]).ok
          THEN Raised("ValueError")
          ELSE [ok |-> TRUE, exc |-> "",
                cogs |-> [k \in DOMAIN latest_cogs |-> from_str(latest_cogs[k]).val],
                utils |-> latest_utils,
                red |-> latest_red.val]

\* lines 201-210; cur_red_version is the running Red's version
get_current_vers(curr_cog_ver, qual_name, sidecar, cur_red_version) ==
    IF sidecar.status # "ok" THEN Raised(sidecar.status)
    ELSE
      LET latest_utils == Prefix(IF "latest_commit" \in DOMAIN sidecar.data
                                 THEN sidecar.data["latest_commit"] ELSE Unknown)
          ver == from_str(curr_cog_ver)
      IN  IF ~ver.ok THEN Raised("ValueError")
          ELSE [ok |-> TRUE, exc |-> "",
                cogs |-> [k \in {Lower(qual_name)} |-> ver.val],
                utils |-> latest_utils,
                red |-> cur_red_version]

\* ---- Python values of the three *_updated variables --------------------------
PyBool(b) == [type |-> "bool", val |-> IF b THEN "True" ELSE "False"]
PyStr(t) == [type |-> "str", val |-> t]

\* truth value of a bool or a str
Truthy(x) == IF x.type = "bool" THEN x.val = "True" ELSE x.val # ""

GREEN_CIRCLE == "GREEN_CIRCLE"
RED_CIRCLE == "RED_CIRCLE"

\* GREEN_CIRCLE if x else RED_CIRCLE
Indicator(x) == IF Truthy(x) THEN GREEN_CIRCLE ELSE RED_CIRCLE

\* the three cells of the "Latest version" column
LatestCells(latest, cog_name) ==
    [cogs |-> [kind |-> "VersionInfo", val |-> latest.cogs[cog_name]],
     utils |-> [kind |-> "str", val |-> latest.utils],
     red |-> [kind |-> "VersionInfo", val |-> latest.red]]
\* UnknownVers({cog_name: "Unknown"}), lines 91 and 176-179
UnknownCells ==
    [cogs |-> [kind |-> "str", val |-> Unknown],
     utils |-> [kind |-> "str", val |-> Unknown],
     red |-> [kind |-> "str", val |-> Unknown]]

\* faulty variant: the plugin counts as up to date only when strictly newer
ReconcileStrictCog(current, latest, cog_name) ==
    IF latest.ok /\ cog_name \in DOMAIN latest.cogs
    THEN [raised |-> FALSE,
          cog_updated |-> PyBool(VersionLt(latest.cogs[cog_name], current.cogs[cog_name])),
          utils_updated |-> PyBool(current.utils = latest.utils),
          red_updated |-> PyBool(VersionGe(current.red, latest.red)),
          latest |-> LatestCells(latest, cog_name)]
    ELSE [raised |-> FALSE,
          cog_updated |-> PyStr("Unknown"),
          utils_updated |-> PyStr("Unknown"),
          red_updated |-> PyStr("Unknown"),
          latest |-> UnknownCells]
\* faulty variant: a plugin missing from the manifest (KeyError) is not caught
ReconcileCatchesFetchOnly(current, latest, cog_name) ==
    IF latest.ok /\ cog_name \in DOMAIN latest.cogs
    THEN [raised |-> FALSE,
          cog_updated |-> PyBool(VersionGe(current.cogs[cog_name], latest.cogs[cog_name])),
          utils_updated |-> PyBool(current.utils = latest.utils),
          red_updated |-> PyBool(VersionGe(current.red, latest.red)),
          latest |-> LatestCells(latest, cog_name)]
    ELSE [raised |-> latest.ok,
          cog_updated |-> PyStr("Unknown"),
          utils_updated |-> PyStr("Unknown"),
          red_updated |-> PyStr("Unknown"),
          latest |-> UnknownCells]
\* lines 82-91: the try block of format_info and its except clause.
\* raised: an exception left the block (the except clause catches Exception).
Reconcile(current, latest, cog_name) ==
    IF latest.ok /\ cog_name \in DOMAIN latest.cogs
    THEN [raised |-> FALSE,
          cog_updated |-> PyBool(VersionGe(current.cogs[cog_name], latest.cogs[cog_name])),
          utils_updated |-> PyBool(current.utils = latest.utils),
          red_updated |-> PyBool(VersionGe(current.red, latest.red)),
          latest |-> LatestCells(latest, cog_name)]
    ELSE [raised |-> FALSE,
          cog_updated |-> PyStr("Unknown"),
          utils_updated |-> PyStr("Unknown"),
          red_updated |-> PyStr("Unknown"),
          latest |-> UnknownCells]

\* lines 114-122: the update instructions, one line per axis that is falsy
UpdateMsg(r) ==
    (IF ~Truthy(r.cog_updated) THEN <<"update this cog">> ELSE <<>>)
    \o (IF ~Truthy(r.utils_updated) THEN <<"update the bundled utils">> ELSE <<>>)
    \o (IF ~Truthy(r.red_updated) THEN <<"update Red">> ELSE <<>>)

\* lines 93-147: the report, as the table's rows and the update instructions
Report(current, r, cog_name) ==
    [rows |->
        [cogs |-> [yours |-> current.cogs[cog_name], latest |-> r.latest.cogs,
                   indicator |-> Indicator(r.cog_updated)],
         utils |-> [yours |-> current.utils, latest |-> r.latest.utils,
                    indicator |-> Indicator(r.utils_updated)],
         red |-> [yours |-> current.red, latest |-> r.latest.red,
                  indicator |-> Indicator(r.red_updated)]],
     update_msg |-> UpdateMsg(r)]

\* how a call ended
NotEnded == [how |-> "running", exc |-> "", value |-> <<>>]
Propagated(exc) == [how |-> "raised", exc |-> exc, value |-> <<>>]
Returned(value) == [how |-> "returned", exc |-> "", value |-> value]

\* faulty variant: an equal version is reported as out of date
FreshnessLogLe(currentver, vers, cogname) ==
    LET cur == from_str(currentver)
    IN  IF vers.ok /\ cur.ok /\ cogname \in DOMAIN vers.cogs
        THEN IF ~VersionLt(vers.cogs[cogname], cur.val)
             THEN <<[level |-> "warning", text |-> "out of date"]>>
             ELSE <<[level |-> "debug", text |-> "up to date"]>>
        ELSE <<[level |-> "debug", text |-> "something went wrong"]>>
\* lines 155-167: the comparison of out_of_date_check, its two log calls and its
\* except clause
FreshnessLog(currentver, vers, cogname) ==
    LET cur == from_str(currentver)
    IN  IF vers.ok /\ cur.ok /\ cogname \in DOMAIN vers.cogs
        THEN IF VersionLt(cur.val, vers.cogs[cogname])
             THEN <<[level |-> "warning", text |-> "out of date"]>>
             ELSE <<[level |-> "debug", text |-> "up to date"]>>
        ELSE <<[level |-> "debug", text |-> "something went wrong"]>>

\* ---- asyncio.Lock, as `async with cog_ver_lock` uses it (line 153) ----------
\* faulty variant: the lock is taken without looking at its state
CanAcquireIgnoresHolder(l) == TRUE

\* acquire() returns at once when the lock is free and nobody is queued
CanAcquire(l) == ~l.locked /\ l.waiters = <<>>

\* faulty variant: the lock is released only when the fetch did not raise
AexitOnlyOnSuccess(l, fetch_ok) ==
    IF fetch_ok
    THEN [locked |-> FALSE, waiters |-> l.waiters,
          woken |-> IF l.waiters # <<>> THEN {Head(l.waiters)} ELSE {}]
    ELSE l
\* __aexit__: release() on every way out of the block, waking the first waiter
Aexit(l, fetch_ok) ==
    [locked |-> FALSE, waiters |-> l.waiters,
     woken |-> IF l.waiters # <<>> THEN {Head(l.waiters)} ELSE {}]

NoArgs == [name |-> "", version |-> <<>>,
           sidecar |-> [status |-> "not read", data |-> EmptyDict],
           red |-> NoVersion]
NoResp == [api |-> NotRequested, pypi |-> NotRequested]

VersInit ==
    /\ vpc = [p \in Procs |-> "idle"]
    /\ fn = [p \in Procs |-> "none"]
    /\ args = [p \in Procs |-> NoArgs]
    /\ cog_ver_lock = [locked |-> FALSE, waiters |-> <<>>, woken |-> {}]
    /\ resp = [p \in Procs |-> NoResp]
    /\ attempts = [p \in Procs |-> 0]
    /\ logged = [p \in Procs |-> <<>>]
    /\ result = [p \in Procs |-> NotEnded]

\* out_of_date_check(cogname, currentver) is called: lines 150-154, up to the
\* first suspension (on the lock, or inside _get_latest_vers)
CallOutOfDateCheck(p, cogname, currentver) ==
    /\ vpc[p] = "idle"
    /\ fn' = [fn EXCEPT ![p] = "out_of_date_check"]
    /\ args' = [args EXCEPT ![p] = [NoArgs EXCEPT !.name = cogname, !.version = currentver]]
    /\ IF CanAcquire(cog_ver_lock)
       THEN /\ cog_ver_lock' = [cog_ver_lock EXCEPT !.locked = TRUE]
            /\ attempts' = [attempts EXCEPT ![p] = @ + 1]
            /\ vpc' = [vpc EXCEPT ![p] = "fetching"]
       ELSE /\ cog_ver_lock' = [cog_ver_lock EXCEPT !.waiters = Append(@, p)]
            /\ attempts' = attempts
            /\ vpc' = [vpc EXCEPT ![p] = "waiting"]
    /\ UNCHANGED <<resp, logged, result>>

\* a task queued on the lock is resumed after release() woke it: it takes the
\* lock and starts its fetch (lines 153-154)
ResumeWithLock(p) ==
    /\ vpc[p] = "waiting"
    /\ p \in cog_ver_lock.woken
    /\ cog_ver_lock' = [locked |-> TRUE,
                        waiters |-> SelectSeq(cog_ver_lock.waiters, LAMBDA q : q # p),
                        woken |-> cog_ver_lock.woken \ {p}]
    /\ attempts' = [attempts EXCEPT ![p] = @ + 1]
    /\ vpc' = [vpc EXCEPT ![p] = "fetching"]
    /\ UNCHANGED <<fn, args, resp, logged, result>>

\* _get_latest_vers ends inside out_of_date_check: lines 154-167
OutOfDateCheckReturn(p, api, pypi) ==
    /\ vpc[p] = "fetching"
    /\ fn[p] = "out_of_date_check"
    /\ LET vers == get_latest_vers(api, pypi)
       IN  /\ cog_ver_lock' = Aexit(cog_ver_lock, vers.ok)
           /\ logged' = [logged EXCEPT ![p] = @ \o FreshnessLog(args[p].version, vers, args[p].name)]
    /\ resp' = [resp EXCEPT ![p] = [api |-> api, pypi |-> pypi]]
    /\ result' = [result EXCEPT ![p] = Returned(<<>>)]
    /\ vpc' = [vpc EXCEPT ![p] = "done"]
    /\ UNCHANGED <<fn, args, attempts>>

\* format_info(ctx, qualified_name, cog_version) is called: lines 80-83, up to
\* the suspension inside _get_latest_vers
CallFormatInfo(p, qualified_name, cog_version, sidecar, red) ==
    /\ vpc[p] = "idle"
    /\ fn' = [fn EXCEPT ![p] = "format_info"]
    /\ args' = [args EXCEPT ![p] = [name |-> qualified_name, version |-> cog_version,
                                    sidecar |-> sidecar, red |-> red]]
    /\ LET current == get_current_vers(cog_version, qualified_name, sidecar, red)
       IN  IF current.ok
           THEN /\ attempts' = [attempts EXCEPT ![p] = @ + 1]
                /\ vpc' = [vpc EXCEPT ![p] = "fetching"]
                /\ result' = result
           ELSE /\ attempts' = attempts
                /\ vpc' = [vpc EXCEPT ![p] = "done"]
                /\ result' = [result EXCEPT ![p] = Propagated(current.exc)]
    /\ UNCHANGED <<cog_ver_lock, resp, logged>>

\* _get_latest_vers ends inside format_info: lines 83-147
FormatInfoReturn(p, api, pypi) ==
    /\ vpc[p] = "fetching"
    /\ fn[p] = "format_info"
    /\ LET cog_name == Lower(args[p].name)
           current == get_current_vers(args[p].version, args[p].name, args[p].sidecar,
                                       args[p].red)
           latest == get_latest_vers(api, pypi)
           r == Reconcile(current, latest, cog_name)
       IN  /\ result' = [result EXCEPT ![p] =
                           IF r.raised THEN Propagated("Exception")
                           ELSE Returned(Report(current, r, cog_name))]
           /\ logged' = [logged EXCEPT ![p] =
                           IF latest.ok /\ cog_name \in DOMAIN latest.cogs THEN @
                           ELSE Append(@, [level |-> "warning", text |-> "Unable to parse versions."])]
    /\ resp' = [resp EXCEPT ![p] = [api |-> api, pypi |-> pypi]]
    /\ vpc' = [vpc EXCEPT ![p] = "done"]
    /\ UNCHANGED <<fn, args, cog_ver_lock, attempts>>

vars == <<statusVars, versVars>>

\* the state before any command or check has run
Init == StatusInit /\ VersInit

(***************************************************************************)
(* Specifications                                                          *)
(***************************************************************************)
\* one invocation of the status command
StatusNext ==
    \/ CooldownGate /\ UNCHANGED versVars
    \/ RestrictionGate /\ UNCHANGED versVars
    \/ FetchSummary /\ UNCHANGED versVars
    \/ Dispatch /\ UNCHANGED versVars
    \/ SendSummary /\ UNCHANGED versVars

SpecStatus == Init /\ [][StatusNext]_vars

\* the responses a fetch can end with: the second request is made only when
\* the first response was read without error
FetchOutcomes(apis, pypis) ==
    {o \in [api : apis, pypi : pypis \cup {NotRequested}] :
        (o.pypi = NotRequested) <=> (get_latest_vers(o.api, NotRequested).exc # "not requested")}

CogVersionStrings == {V102, V110, VBad}
RedVersions == {from_str(R349).val, from_str(R350).val}
AllOutcomes ==
    FetchOutcomes(ApiResponses({CommitA, CommitB}, {"status"}, CogVersionStrings),
                  PypiResponses({R349, R350, VBad}))

\* one task, every input: a single format_info or out_of_date_check call
VersNext ==
    \/ \E v \in CogVersionStrings :
         CallOutOfDateCheck(1, "status", v) /\ UNCHANGED statusVars
    \/ \E o \in AllOutcomes :
         OutOfDateCheckReturn(1, o.api, o.pypi) /\ UNCHANGED statusVars
    \/ \E v \in CogVersionStrings, sc \in Sidecars({CommitA2, CommitB}), red \in RedVersions :
         CallFormatInfo(1, "Status", v, sc, red) /\ UNCHANGED statusVars
    \/ \E o \in AllOutcomes :
         FormatInfoReturn(1, o.api, o.pypi) /\ UNCHANGED statusVars

SpecVers == Init /\ [][VersNext]_vars

\* NProcs concurrent tasks, a failing and a succeeding fetch
FewOutcomes ==
    {[api |-> [status |-> "TimeoutError", data |-> EmptyDict], pypi |-> NotRequested],
     [api |-> [status |-> "ok",
               data |-> [k \in {"utils", "status"} |->
                           IF k = "utils" THEN CommitB ELSE V110]],
      pypi |-> [status |-> "ok",
                data |-> [k \in {"info"} |-> [j \in {"version"} |-> R350]]]]}

LockNext ==
    \/ \E p \in Procs : CallOutOfDateCheck(p, "status", V102) /\ UNCHANGED statusVars
    \/ \E p \in Procs : ResumeWithLock(p) /\ UNCHANGED statusVars
    \/ \E p \in Procs, o \in FewOutcomes :
         OutOfDateCheckReturn(p, o.api, o.pypi) /\ UNCHANGED statusVars
    \/ \E p \in Procs :
         CallFormatInfo(p, "Status", V102, [status |-> "ok", data |-> EmptyDict],
                        from_str(R349).val) /\ UNCHANGED statusVars
    \/ \E p \in Procs, o \in FewOutcomes :
         FormatInfoReturn(p, o.api, o.pypi) /\ UNCHANGED statusVars

SpecLock == Init /\ [][LockNext]_vars

\* a step of an out_of_date_check task that is ready to run: a woken waiter
\* taking the lock, or the fetch of the lock's holder coming to its end
CheckProgress ==
    \E p \in Procs :
        \/ ResumeWithLock(p) /\ UNCHANGED statusVars
        \/ \E o \in FewOutcomes : OutOfDateCheckReturn(p, o.api, o.pypi) /\ UNCHANGED statusVars

\* The event loop keeps running a task while one is ready, and each of the two
\* requests of _get_latest_vers ends within its timeout (5 s and 3 s): some
\* ready out_of_date_check task always gets to make its step.
LiveLock == SpecLock /\ WF_vars(CheckProgress)

(***************************************************************************)
(* Properties of the status command (checked under SpecStatus)             *)
(***************************************************************************)
Range(f) == {f[i] : i \in DOMAIN f}

\* the scheduled entries that have already started, straight from line 61
StartedScheduled ==
    SelectSeq(all_scheduled, LAMBDA i : i.scheduled_for \in 1..(now - 1))

\* the invocation ended at the restriction gate: one reply, the channel list
RestrictedStop ==
    /\ spc = "done"
    /\ Len(replies) = 1
    /\ replies[1].type = "restricted"
    /\ fetches = 0
    /\ dispatched = <<>>

PassedRestrictionGate == spc \notin {"cooldown", "restriction"} /\ time_until = 0

\* C2, as claimed: past the cooldown gate and with a restriction configured, the
\* command replies with the channel list and stops exactly when the invoking
\* channel is not one of the restricted channels.
C2_StopsIffChannelNotPermitted ==
    (PassedRestrictionGate /\ restrictions # <<>>)
        => (RestrictedStop <=> channel \notin Range(restrictions))

\* C2, amended: past the cooldown gate and with a restriction configured, the
\* command replies with the restricted channels that resolve to text channels
\* and stops exactly when at least one of them does, whichever channel it was
\* invoked in; when none does it goes on to the status-page fetch.
C2_StopsIffSomeTextChannelRestricted ==
    (PassedRestrictionGate /\ restrictions # <<>>)
        => IF \E i \in 1..Len(restrictions) : get_channel(restrictions[i]) = "TextChannel"
           THEN /\ RestrictedStop
                /\ \A c \in ChannelIds :
                     c \in Range(replies[1].channels)
                       <=> (c \in Range(restrictions) /\ get_channel(c) = "TextChannel")
           ELSE /\ typing
                /\ \A i \in 1..Len(replies) : replies[i].type # "restricted"
                /\ spc = "fetch" \/ fetches = 1

\* C2 witness: invoked in a permitted channel, and stopped with the channel list
C2_Witness ==
    /\ RestrictedStop
    /\ channel \in Range(restrictions)
    /\ channel \in Range(replies[1].channels)

\* C3: when the cooldown tracker returns a positive remaining time, the
\* invocation sends exactly one reply, the cooldown notice, and stops: the
\* restriction cache is not queried, no status-page fetch is made and nothing is
\* dispatched.
C3_CooldownStops ==
    (spc # "cooldown" /\ time_until > 0)
        => /\ spc = "done"
           /\ replies = <<[type |-> "cooldown", seconds |-> time_until]>>
           /\ ~cacheQueried
           /\ ~typing
           /\ fetches = 0
           /\ dispatched = <<>>

\* C3 witness: an invocation ended by the cooldown gate
C3_Witness ==
    /\ spc = "done"
    /\ time_until = MaxCooldown
    /\ Len(replies) = 1
    /\ replies[1].type = "cooldown"

\* the summary replies among the replies sent
SummaryReplies == SelectSeq(replies, LAMBDA r : r.type = "summary")

\* the lines a summary of `rest` under `header` must consist of
ExpectedLines(header, rest) ==
    <<[line |-> header, count |-> Len(rest)]>>
    \o [i \in 1..Len(rest) |-> [line |-> "entry", title |-> rest[i].title]]

\* C4: with a 200 response at most one entry is dispatched; it is the first
\* incident when there is one, the first started scheduled entry only when there
\* is no incident; the summary lists exactly the rest of that list with its
\* count, and mentions no scheduled maintenance when there are incidents.
C4_PrimaryAndSummary ==
    /\ Len(dispatched) <= 1
    /\ (spc = "done" /\ status = 200) =>
         LET I == incidents_incidentdata_list
             S == StartedScheduled
             from == IF I # <<>> THEN I ELSE S
             header == IF I # <<>> THEN "other incidents" ELSE "other scheduled"
         IN  /\ dispatched = (IF from = <<>> THEN <<>> ELSE <<from[1]>>)
             /\ IF Len(from) > 1
                THEN /\ Len(SummaryReplies) = 1
                     /\ SummaryReplies[1].lines = ExpectedLines(header, Tail(from))
                ELSE SummaryReplies = <<>>
             /\ I # <<>> =>
                  \A i \in 1..Len(SummaryReplies) :
                    \A j \in 1..Len(SummaryReplies[i].lines) :
                      SummaryReplies[i].lines[j].line # "other scheduled"

\* C4 witness: two incidents and a started scheduled entry; the first incident
\* was dispatched and a summary was sent
C4_Witness ==
    /\ spc = "done"
    /\ status = 200
    /\ Len(incidents_incidentdata_list) = 2
    /\ incidents_incidentdata_list[1] # incidents_incidentdata_list[2]
    /\ StartedScheduled # <<>>
    /\ dispatched = <<incidents_incidentdata_list[1]>>
    /\ Len(SummaryReplies) = 1

\* C5: past both gates, SendUpdate.send is invoked exactly when the fetch
\* returned 200 and there is an incident or a started scheduled entry; otherwise
\* exactly one reply is sent and nothing is dispatched: the apology for a
\* non-200 status, the "no live incidents" message when both lists are empty.
C5_DispatchIffSomethingLive ==
    LET live == status = 200
                /\ (incidents_incidentdata_list # <<>> \/ StartedScheduled # <<>>)
    IN  /\ spc \in {"dispatch", "summary"} => live
        /\ (spc = "done" /\ fetches = 1) =>
             /\ dispatched # <<>> <=> live
             /\ status # 200 => replies = <<[type |-> "cant get status"]>>
             /\ (status = 200 /\ ~live) => replies = <<[type |-> "no live incidents"]>>

\* C5 witness: a 200 response with no incident and a started scheduled entry,
\* dispatched
C5_Witness ==
    /\ spc = "done"
    /\ status = 200
    /\ incidents_incidentdata_list = <<>>
    /\ Len(dispatched) = 1
    /\ dispatched[1].scheduled_for # 0

(***************************************************************************)
(* Properties of format_info and out_of_date_check, one call at a time     *)
(* (checked under SpecVers)                                                *)
(***************************************************************************)
EndedFormatInfo(p) == fn[p] = "format_info" /\ vpc[p] = "done"
EndedOutOfDateCheck(p) == fn[p] = "out_of_date_check" /\ vpc[p] = "done"

\* _get_current_vers cannot build the current versions from these arguments
CurrentUnavailable(p) ==
    \/ args[p].sidecar.status # "ok"
    \/ ~from_str(args[p].version).ok

\* the fetch of task p ended without raising
FetchSucceeded(p) == get_latest_vers(resp[p].api, resp[p].pypi).ok

\* the fetched manifest lists the cog under the key k
Listed(p, k) == resp[p].api.status = "ok" /\ k \in DOMAIN resp[p].api.data

Indicators(p) ==
    {result[p].value.rows.cogs.indicator,
     result[p].value.rows.utils.indicator,
     result[p].value.rows.red.indicator}

\* C1, as claimed: when the fetch or a comparison raised, format_info returns a
\* report whose three status indicators are the literal "Unknown", neither the
\* green nor the red glyph.
C1_FailureShowsUnknownIndicators ==
    \A p \in Procs :
        (EndedFormatInfo(p) /\ ~CurrentUnavailable(p)
           /\ ~(FetchSucceeded(p) /\ Listed(p, Lower(args[p].name))))
        => /\ result[p].how = "returned"
           /\ Indicators(p) = {"Unknown"}

\* C7, as claimed: format_info never raises; every failure of the display
\* path, a missing or malformed commit.json and an unparsable current version
\* included, ends in a returned report.
C7_FormatInfoNeverRaises ==
    \A p \in Procs : EndedFormatInfo(p) => result[p].how = "returned"

\* C7, amended: format_info raises exactly when _get_current_vers fails
\* (commit.json missing or malformed, or the caller's version string
\* unparsable); every failure of the remote fetch or of a comparison is caught:
\* a report is returned whose three latest-version cells are "Unknown" and
\* one warning is logged.
C7_RaisesOnlyWhenCurrentUnavailable ==
    \A p \in Procs :
        EndedFormatInfo(p) =>
            /\ result[p].how = "raised" <=> CurrentUnavailable(p)
            /\ result[p].how \in {"raised", "returned"}
            /\ (~CurrentUnavailable(p)
                  /\ ~(FetchSucceeded(p) /\ Listed(p, Lower(args[p].name)))) =>
                 /\ \A axis \in {"cogs", "utils", "red"} :
                      /\ result[p].value.rows[axis].latest.kind = "str"
                      /\ result[p].value.rows[axis].latest.val = Unknown
                 /\ Len(logged[p]) = 1
                 /\ logged[p][1].level = "warning"

\* C7 witness: the fetch timed out and format_info returned a report
C7_Witness ==
    \E p \in Procs :
        /\ EndedFormatInfo(p)
        /\ resp[p].api.status = "TimeoutError"
        /\ result[p].how = "returned"
        /\ result[p].value.rows.red.latest.kind = "str"

\* what the report of task p must show, from the raw inputs of the call
CurrentCommit(p) ==
    IF "latest_commit" \in DOMAIN args[p].sidecar.data
    THEN args[p].sidecar.data["latest_commit"] ELSE Unknown
LatestRedString(p) ==
    IF "info" \in DOMAIN resp[p].pypi.data /\ "version" \in DOMAIN resp[p].pypi.data["info"]
    THEN resp[p].pypi.data["info"]["version"] ELSE DefaultRedVersion
CogUpToDate(p) ==
    ~VersionLt(from_str(args[p].version).val, from_str(resp[p].api.data[Lower(args[p].name)]).val)
UtilsUpToDate(p) ==
    SubSeq(CurrentCommit(p), 1, HashPrefixLen) = SubSeq(resp[p].api.data["utils"], 1, HashPrefixLen)
RedUpToDate(p) ==
    ~VersionLt(args[p].red, from_str(LatestRedString(p)).val)

\* each row is green exactly when its axis is up to date, red otherwise, and the
\* update instructions name exactly the axes that are not up to date
AxesReportedIndependently(p) ==
    LET rep == result[p].value
        Glyph(b) == IF b THEN GREEN_CIRCLE ELSE RED_CIRCLE
    IN  /\ rep.rows.cogs.indicator = Glyph(CogUpToDate(p))
        /\ rep.rows.utils.indicator = Glyph(UtilsUpToDate(p))
        /\ rep.rows.red.indicator = Glyph(RedUpToDate(p))
        /\ "update this cog" \in Range(rep.update_msg) <=> ~CogUpToDate(p)
        /\ "update the bundled utils" \in Range(rep.update_msg) <=> ~UtilsUpToDate(p)
        /\ "update Red" \in Range(rep.update_msg) <=> ~RedUpToDate(p)
        /\ Len(rep.update_msg) = Cardinality(Range(rep.update_msg))

\* C9, as claimed: whenever the remote fetch succeeds, the host row is marked up
\* to date exactly when current host version >= latest host version, the utils
\* row exactly when the two 7-character identifiers are equal, and an update
\* line is appended for an axis exactly when it is not up to date.
C9_AxesWheneverFetchSucceeds ==
    \A p \in Procs :
        (EndedFormatInfo(p) /\ result[p].how = "returned" /\ FetchSucceeded(p)) =>
            LET rep == result[p].value
            IN  /\ rep.rows.red.indicator = GREEN_CIRCLE <=> RedUpToDate(p)
                /\ rep.rows.utils.indicator = GREEN_CIRCLE <=> UtilsUpToDate(p)
                /\ "update Red" \in Range(rep.update_msg) <=> ~RedUpToDate(p)
                /\ "update the bundled utils" \in Range(rep.update_msg) <=> ~UtilsUpToDate(p)

\* C9, amended: when the remote fetch succeeds and the fetched manifest lists
\* the plugin, the three axes are computed independently: plugin row up to date
\* exactly when current >= latest, host row likewise, utils row exactly when the
\* two 7-character identifiers are equal; an update line is appended for an axis
\* exactly when that axis is not up to date.
C9_AxesWhenFetchSucceedsAndPluginListed ==
    \A p \in Procs :
        (EndedFormatInfo(p) /\ result[p].how = "returned" /\ FetchSucceeded(p)
           /\ Listed(p, Lower(args[p].name)))
        => AxesReportedIndependently(p)

\* C9 witness: the plugin is behind, the utils differ only after the seventh
\* character and so count as equal, and Red is current
C9_Witness ==
    \E p \in Procs :
        /\ EndedFormatInfo(p) /\ result[p].how = "returned" /\ FetchSucceeded(p)
        /\ Listed(p, Lower(args[p].name))
        /\ CurrentCommit(p) # resp[p].api.data["utils"]
        /\ result[p].value.rows.cogs.indicator = RED_CIRCLE
        /\ result[p].value.rows.utils.indicator = GREEN_CIRCLE
        /\ result[p].value.rows.red.indicator = GREEN_CIRCLE
        /\ result[p].value.update_msg = <<"update this cog">>

\* C6: out_of_date_check always returns normally, whatever the fetch and the
\* comparison did, after exactly one log line: a warning when the fetch
\* succeeded and the current version is strictly lower than the latest, a debug
\* line in every other case.
C6_OutOfDateCheckNeverRaises ==
    \A p \in Procs :
        EndedOutOfDateCheck(p) =>
            /\ result[p].how = "returned"
            /\ Len(logged[p]) = 1
            /\ logged[p][1].level \in {"warning", "debug"}
            /\ logged[p][1].level = "warning" <=>
                 /\ FetchSucceeded(p)
                 /\ Listed(p, args[p].name)
                 /\ from_str(args[p].version).ok
                 /\ VersionLt(from_str(args[p].version).val,
                              from_str(resp[p].api.data[args[p].name]).val)

\* C6 witness: the fetch succeeded but the manifest does not list the plugin;
\* the call returned after one debug line
C6_Witness ==
    \E p \in Procs :
        /\ EndedOutOfDateCheck(p)
        /\ FetchSucceeded(p)
        /\ ~Listed(p, args[p].name)
        /\ result[p].how = "returned"
        /\ Len(logged[p]) = 1 /\ logged[p][1].level = "debug"

(***************************************************************************)
(* Properties of the lock (checked under SpecLock and LiveLock)            *)
(***************************************************************************)
Fetching == {p \in Procs : vpc[p] = "fetching"}
FetchingChecks == {p \in Fetching : fn[p] = "out_of_date_check"}

\* C8, as claimed: at most one execution of _get_latest_vers is in progress at
\* any time, over out_of_date_check and format_info tasks alike.
C8_OneFetchAtATime == Cardinality(Fetching) <= 1

\* C8, amended: at most one out_of_date_check task is inside _get_latest_vers
\* at any time and it is the holder of cog_ver_lock; format_info does not take
\* the lock, so its fetches run beside it.
C8_OneCheckFetchAtATime ==
    /\ Cardinality(FetchingChecks) <= 1
    /\ cog_ver_lock.locked <=> FetchingChecks # {}

\* C8 witness: one check is fetching while another waits on the lock
C8_Witness ==
    \E p, q \in Procs :
        /\ p \in FetchingChecks
        /\ vpc[q] = "waiting"
        /\ cog_ver_lock.waiters # <<>>

Checks == {p \in Procs : fn[p] = "out_of_date_check"}

\* C10: every out_of_date_check caller eventually gets the lock, makes exactly
\* one fetch attempt of its own, releases the lock whether the fetch succeeded
\* or raised, and returns: as many attempts as callers, and nobody waits
\* forever.
C10_EveryCallerFetchesOnceAndReturns ==
    /\ [](\A p \in Checks :
            attempts[p] = IF vpc[p] \in {"fetching", "done"} THEN 1 ELSE 0)
    /\ [](FetchingChecks = {} => ~cog_ver_lock.locked)
    /\ \A p \in Procs :
         (fn[p] = "out_of_date_check") ~> (vpc[p] = "done" /\ attempts[p] = 1)

\* C10 witness: every task ran out_of_date_check and returned, some after a
\* failed fetch and some after a successful one, with one attempt each
C10_Witness ==
    /\ \A p \in Procs : EndedOutOfDateCheck(p) /\ attempts[p] = 1
    /\ \E p \in Procs : ~FetchSucceeded(p)
    /\ \E p \in Procs : FetchSucceeded(p)
    /\ ~cog_ver_lock.locked
====
